---------------------------- MODULE Spec2Model ----------------------------
(***************************************************************************)
(* A model of the EV activity-and-charging scheduler                       *)
(* (src/src/scheduling.c, src/src/utils.c, src/src/main.c).                *)
(*                                                                         *)
(* Units.  The C code computes with doubles; the model computes exactly,   *)
(* with integers, in fixed units chosen so that every constant of the      *)
(* program is a whole number of units:                                     *)
(*   - distances are in km (the inputs enumerated lie on a line, so        *)
(*     distance_x's square root is exact);                                 *)
(*   - SOC is in units of 1/SocScale of the battery: one unit is the       *)
(*     energy of one km (energy_consumption_rate = 0.2 kWh/km of a 60 kWh  *)
(*     battery);                                                           *)
(*   - charge cost is in units of 1/CostScale GBP;                         *)
(*   - utility is in units of 1/UScale.                                    *)
(* Floating-point rounding is not modelled.                                *)
(*                                                                         *)
(* Names.  scheduling.c reads a->activity_type and num_activities where    *)
(* scheduling.h declares Activity.group and max_num_activities; the model  *)
(* identifies each pair (one group field, one activity count).             *)
(***************************************************************************)
EXTENDS Integers, Sequences, FiniteSets, TLC

VARIABLES
    activities,      \* Activity[]: the input array; only .memory changes (add_memory)
    horizon,         \* int horizon
    time_interval,   \* int time_interval
    speed,           \* double speed (km per minute, a whole number here)
    initial_soc,     \* double initial_soc (SOC units)
    stray,           \* what lies in memory after the coefficient arrays (1/100)
    bucket,          \* L_list **bucket: bucket[t][i] is a list of nodes
    h,               \* DP(): loop variable h
    act_index,       \* DP(): loop variable act_index
    list,            \* DP(): position of `list` in bucket[h][act_index] (1 = the cell itself)
    a1,              \* DP(): loop variable a1
    call,            \* the line of main() that called DP(): 23 or 36
    pc,              \* control location
    DSSR_count,      \* int DSSR_count
    final_schedule,  \* Label *final_schedule
    solves           \* what the caller read after each main(): get_count(),
                     \* and the utility of get_final_schedule()

vars == <<activities, horizon, time_interval, speed, initial_soc, stray, bucket, h,
          act_index, list, a1, call, pc, DSSR_count, final_schedule, solves>>

NULL == [null |-> TRUE]

Max(a, b) == IF a >= b THEN a ELSE b
Min(a, b) == IF a <= b THEN a ELSE b
Abs(a) == IF a >= 0 THEN a ELSE -a

-----------------------------------------------------------------------------
(* Program constants (scheduling.c:31-83), in the model's units.           *)

battery_capacity == 60
SocScale == 5 * battery_capacity            \* 300 units = a full battery
soc_full == SocScale                        \* 1.0
soc_threshold == (3 * SocScale) \div 10     \* 0.3
slow_charge_power == 7
fast_charge_power == 22
rapid_charge_power == 50
home_slow_charge_price == 26                \* 0.26 GBP/kWh, in 1/100 GBP
AC_charge_price == 52                       \* 0.52
public_dc_charge_price == 79                \* 0.79
tou_peak_factor == 15                       \* 1.5, in tenths
tou_midpeak_factor == 25                    \* 2.5
tou_offpeak_factor == 10                    \* 1
peak_start == 12
peak_end == 18
midpeak1_start == 8
midpeak1_end == 12
midpeak2_start == 18
midpeak2_end == 21
CostScale == (1000 * SocScale) \div battery_capacity   \* charge_cost unit: 1/5000 GBP
UScale == 100 * 5 * SocScale                \* utility unit: 1/150000
gamma_charge_work == -359                   \* -3.59, in 1/100
gamma_charge_non_work == -434               \* -4.34
gamma_charge_home == -334                   \* -3.34
theta_soc == -80
beta_delta_soc == 25
beta_charge_cost == -3                      \* -0.3, in tenths

(* The coefficient arrays handed to set_general_parameters, in 1/100        *)
(* (setup_default_parameters of the tests, rounded to two decimals).        *)
asc == <<0, 1740, 1610, 676, 1200, 1130, 1060, 0, 0>>
early == <<0, -256, -173, -255, -3, -251, -137, 0, 0>>
late == <<0, -154, -342, -58, -158, -99, -79, 0, 0>>
longp == <<0, -8, -60, -3, -21, -13, -20, 0, 0>>
shortp == <<0, -78, -563, 13, -1, 53, -478, 0, 0>>

(* set_general_parameters: `for (int i = 0; i < 5; i++)` copies entries     *)
(* 0..4 into the arrays of scheduling.c:68-72, which have 5 entries.        *)
set_general_parameters(arr) == SubSeq(arr, 1, 5)

asc_parameters == set_general_parameters(asc)
early_parameters == set_general_parameters(early)
late_parameters == set_general_parameters(late)
long_parameters == set_general_parameters(longp)
short_parameters == set_general_parameters(shortp)
travel_time_penalty == 10                   \* 0.1, in 1/100

(* `arr[activity_type]`.  For a group tag of 5 or more the read is past the *)
(* end of the array: it gives whatever the build has put there, `stray`.    *)
Coef(arr, g) ==
    (IF (g + 1) \in DOMAIN arr THEN arr[g + 1] ELSE stray) * (UScale \div 100)

(* The values enumerated for `stray`: zeroed memory, and an entry of the     *)
(* array defined next (early_parameters[1] after asc_parameters[0..4]).     *)
StrayValues == {0, early[2]}

-----------------------------------------------------------------------------
(* Globals derived from the input.                                          *)

num_activities == Len(activities)
Act(i) == activities[i + 1]

(* initialize_charge_rates: `time_interval / 60` is an int division.        *)
fraction_of_hours_per_interval == time_interval \div 60
ChargeRate(power) ==
    (power * fraction_of_hours_per_interval * SocScale) \div battery_capacity
slow_charge_rate == ChargeRate(slow_charge_power)
fast_charge_rate == ChargeRate(fast_charge_power)
rapid_charge_rate == ChargeRate(rapid_charge_power)

-----------------------------------------------------------------------------
(* Helper functions.                                                        *)

RECURSIVE SqrtFrom(_, _)
SqrtFrom(n, r) == IF (r + 1) * (r + 1) > n THEN r ELSE SqrtFrom(n, r + 1)

distance_x(aa, bb) ==
    LET dx == bb.x - aa.x
        dy == bb.y - aa.y
    IN  SqrtFrom(dx * dx + dy * dy, 0)

(* (int)(dist / speed), then ceil(time / time_interval).                    *)
travel_time(aa, bb) ==
    LET time == distance_x(aa, bb) \div speed
    IN  (time + time_interval - 1) \div time_interval

energy_consumed_soc(aa, bb) == distance_x(aa, bb)

(* <<charge_rate, charge_price>>: the switch on a->charge_mode.             *)
get_charge_rate_and_price(a) ==
    CASE a.charge_mode = 1 -> <<0, 0>>
      [] a.charge_mode = 2 ->
            <<slow_charge_rate,
              IF a.group = 0 THEN home_slow_charge_price ELSE AC_charge_price>>
      [] a.charge_mode = 3 -> <<fast_charge_rate, AC_charge_price>>
      [] a.charge_mode = 4 -> <<rapid_charge_rate, public_dc_charge_price>>
      [] OTHER -> <<0, 0>>

get_tou_factor(time) ==
    LET hour == (time * time_interval) \div 60
    IN  IF hour >= peak_start /\ hour < peak_end
        THEN tou_peak_factor
        ELSE IF (hour >= midpeak1_start /\ hour < midpeak1_end)
                \/ (hour >= midpeak2_start /\ hour < midpeak2_end)
             THEN tou_midpeak_factor
             ELSE tou_offpeak_factor

-----------------------------------------------------------------------------
(* Labels.  A label is a record; its `previous` pointer is modelled by      *)
(* `chain`, the sequence of its predecessors (seed first), each stored      *)
(* without its own chain.                                                   *)

Flat(L) == [f \in (DOMAIN L) \ {"chain"} |-> L[f]]
WithChain(fl, ch) ==
    [f \in (DOMAIN fl) \cup {"chain"} |-> IF f = "chain" THEN ch ELSE fl[f]]
Front(s) == SubSeq(s, 1, Len(s) - 1)
Last(s) == s[Len(s)]
Previous(L) ==
    IF L.chain = <<>> THEN NULL ELSE WithChain(Last(L.chain), Front(L.chain))
(* The labels met from L through `previous`, seed first, L last.            *)
Chain(L) == Append(L.chain, Flat(L))

(* Variant: the seed one interval late.                                     *)
create_label_late(aa) ==
    [act_id |-> 0,
     time |-> aa.min_duration + 1,
     start_time |-> 0,
     utility |-> 0,
     deviation_start |-> 0,
     deviation_dur |-> 0,
     duration |-> aa.min_duration + 1,
     mem |-> {0},
     soc_at_activity_start |-> initial_soc,
     current_soc |-> initial_soc,
     charge_duration |-> 0,
     delta_soc |-> 0,
     charge_cost |-> 0,
     chain |-> <<>>]

create_label(aa) ==
    [act_id |-> 0,
     time |-> aa.min_duration,
     start_time |-> 0,
     utility |-> 0,
     deviation_start |-> 0,
     deviation_dur |-> 0,
     duration |-> aa.min_duration,
     mem |-> {0},
     soc_at_activity_start |-> initial_soc,
     current_soc |-> initial_soc,
     charge_duration |-> 0,
     delta_soc |-> 0,
     charge_cost |-> 0,
     chain |-> <<>>]

(* Group memory: a Group_mem list is read only through membership tests,    *)
(* so it is modelled as the set of its g values (NULL = the empty set).     *)
copyLinkedList(head) == head

unionLinkedLists(head1, head2, pipi) ==
    IF head1 = {} \/ head2 = {}
    THEN {pipi}
    ELSE (head1 \cap head2) \cup {pipi}

mem_contains(L, a) ==
    IF a.group = 0 THEN FALSE ELSE a.group \in L.mem

dom_mem_contains(L1, L2) == \A g \in L1.mem : g \in L2.mem


-----------------------------------------------------------------------------
(* is_feasible(L, a): may activity a extend label L?                        *)

(* Variant: a service station is accepted whether charging is selected or  *)
(* not.                                                                     *)
station_never_rejected(a) == FALSE

(* `a->is_service_station` with `!a->is_charging` (constraint 33).          *)
station_without_charging(a) == a.is_service_station /\ ~a.is_charging

(* Variant: constraint 26, `L->current_soc + charge_rate > soc_full`, left  *)
(* out.                                                                     *)
is_feasible_same_any_soc(L, a) ==
    IF L.duration + 1 > a.max_duration
    THEN FALSE
    ELSE IF a.is_charging
            /\ (\/ a.charge_mode = 0
                \/ (Previous(L) # NULL /\ Act(L.act_id).charge_mode # a.charge_mode))
         THEN FALSE
         ELSE IF station_without_charging(a)
              THEN FALSE
              ELSE TRUE

is_feasible_same(L, a) ==
    IF L.duration + 1 > a.max_duration
    THEN FALSE
    ELSE IF a.is_charging
            /\ (\/ a.charge_mode = 0
                \/ (Previous(L) # NULL /\ Act(L.act_id).charge_mode # a.charge_mode)
                \/ L.current_soc + get_charge_rate_and_price(a)[1] > soc_full)
         THEN FALSE
         ELSE IF station_without_charging(a)
              THEN FALSE
              ELSE TRUE

(* Variant: the travel time left out.                                       *)
arrival_time_no_travel(L, a) == L.time

(* `L->time + tt`: the time a is reached from L.                            *)
arrival_time(L, a) == L.time + travel_time(Act(L.act_id), a)

(* Variant: the consumption of the trip left out.                           *)
soc_before_travel(L, a) == L.current_soc

(* `soc_after_travel` (scheduling.c:390).                                   *)
soc_after_travel(L, a) == L.current_soc - energy_consumed_soc(Act(L.act_id), a)

is_feasible_other(L, a) ==
    IF Previous(L) # NULL /\ Previous(L).act_id = a.id
    THEN FALSE
    ELSE IF L.act_id = num_activities - 1
    THEN FALSE
    ELSE IF L.duration < Act(L.act_id).min_duration
    THEN FALSE
    ELSE IF arrival_time(L, a) + a.min_duration
              + travel_time(a, Act(num_activities - 1)) >= horizon - 1
    THEN FALSE
    ELSE IF arrival_time(L, a) < a.earliest_start
    THEN FALSE
    ELSE IF arrival_time(L, a) > a.latest_start
    THEN FALSE
    ELSE IF mem_contains(L, a)
    THEN FALSE
    ELSE IF soc_after_travel(L, a) < 0
    THEN FALSE
    ELSE IF a.is_charging /\ a.charge_mode = 0
    THEN FALSE
    ELSE IF station_without_charging(a)
    THEN FALSE
    ELSE TRUE

is_feasible(L, a) ==
    IF L = NULL
    THEN FALSE
    ELSE IF L.act_id # 0 /\ a.id = 0
         THEN FALSE
         ELSE IF L.act_id = a.id
              THEN is_feasible_same(L, a)
              ELSE is_feasible_other(L, a)

-----------------------------------------------------------------------------
(* dominates(L1, L2): 0 = no, 1 = L2 is NULL, 2 = L1 dominates L2.          *)

(* Variant: the utilities are not compared.                                *)
dominates_any_utility(L1, L2) ==
    IF L1 = NULL THEN 0
    ELSE IF L2 = NULL THEN 1
    ELSE IF L1.act_id # L2.act_id THEN 0
    ELSE IF dom_mem_contains(L2, L1) /\ L1.time <= L2.time
         THEN 2
         ELSE 0

(* Variant: the memories compared the other way round.                      *)
dominates_mem_reversed(L1, L2) ==
    IF L1 = NULL THEN 0
    ELSE IF L2 = NULL THEN 1
    ELSE IF L1.act_id # L2.act_id THEN 0
    ELSE IF L1.utility >= L2.utility
            /\ dom_mem_contains(L1, L2)
            /\ L1.time <= L2.time
         THEN 2
         ELSE 0

dominates(L1, L2) ==
    IF L1 = NULL THEN 0
    ELSE IF L2 = NULL THEN 1
    ELSE IF L1.act_id # L2.act_id THEN 0
    ELSE IF L1.utility >= L2.utility
            /\ dom_mem_contains(L2, L1)
            /\ L1.time <= L2.time
         THEN 2
         ELSE 0

-----------------------------------------------------------------------------
(* update_utility(L): the utility of a label L that has just entered a new  *)
(* activity; previous_L is L->previous.                                     *)

update_utility(L, previous_L) ==
    LET act == Act(L.act_id)
        activity_type == act.group
        previous_act == Act(previous_L.act_id)
        previous_activity_type == previous_act.group
        u0 == previous_L.utility
        u1 == u0 + Coef(asc_parameters, activity_type)
        u2 == u1 + (travel_time_penalty * (UScale \div 100))
                      * travel_time(previous_act, act)
        u3 == IF previous_activity_type # 0 /\ ~previous_act.is_service_station
              THEN u2
                   + Coef(short_parameters, previous_activity_type) * time_interval
                       * Max(0, previous_act.des_duration - previous_L.duration)
                   + Coef(long_parameters, previous_activity_type) * time_interval
                       * Max(0, previous_L.duration - previous_act.des_duration)
              ELSE u2
        u4 == IF activity_type # 0 /\ ~act.is_service_station
              THEN u3
                   + Coef(early_parameters, activity_type) * time_interval
                       * Max(0, act.des_start_time - L.start_time)
                   + Coef(late_parameters, activity_type) * time_interval
                       * Max(0, L.start_time - act.des_start_time)
              ELSE u3
        gamma == IF previous_activity_type = 6 THEN gamma_charge_work
                 ELSE IF previous_activity_type = 0 THEN gamma_charge_home
                 ELSE gamma_charge_non_work
        total_delta_soc == previous_L.current_soc - previous_L.soc_at_activity_start
        interval_charge_cost ==
            IF Previous(previous_L) # NULL
            THEN previous_L.charge_cost - Previous(previous_L).charge_cost
            ELSE previous_L.charge_cost
        u5 == IF previous_act.is_charging
              THEN u4
                   + gamma * (UScale \div 100)
                   + theta_soc * Max(0, soc_threshold - previous_L.soc_at_activity_start)
                       * (UScale \div SocScale)
                   + beta_delta_soc * total_delta_soc * (UScale \div SocScale)
                   + beta_charge_cost * interval_charge_cost
                       * (UScale \div (10 * CostScale))
              ELSE u4
    IN  u5

-----------------------------------------------------------------------------
(* update_label_from_activity(current_label, a): the label after one step.  *)

new_activity_label(current_label, a) ==
    LET cur_act == Act(current_label.act_id)
        start_time == current_label.time + travel_time(cur_act, a)
        dusk == a.id = num_activities - 1
        duration == IF dusk THEN horizon - start_time - 1 ELSE a.min_duration
        time == IF dusk THEN horizon - 1 ELSE start_time + duration
        soc0 == current_label.current_soc - energy_consumed_soc(cur_act, a)
        rp == get_charge_rate_and_price(a)
        delta_soc == IF a.is_charging THEN Min(soc_full - soc0, rp[1]) ELSE 0
        interval_cost == rp[2] * get_tou_factor(start_time) * delta_soc
        L0 == [act_id |-> a.id,
               time |-> time,
               start_time |-> start_time,
               utility |-> 0,
               deviation_start |-> current_label.deviation_start,
               deviation_dur |-> current_label.deviation_dur,
               duration |-> duration,
               mem |-> unionLinkedLists(current_label.mem, a.memory, a.group),
               soc_at_activity_start |-> soc0,
               current_soc |-> soc0 + delta_soc,
               charge_duration |-> IF a.is_charging THEN time_interval ELSE 0,
               delta_soc |-> delta_soc,
               charge_cost |-> current_label.charge_cost
                                 + (IF a.is_charging THEN interval_cost ELSE 0),
               chain |-> Chain(current_label)]
    IN  [L0 EXCEPT
          !.utility = update_utility(L0, current_label),
          !.deviation_start =
              IF ~a.is_service_station /\ a.group # 0
              THEN @ + Abs(start_time - a.des_start_time) ELSE @,
          !.deviation_dur =
              IF ~cur_act.is_service_station /\ cur_act.group # 0
              THEN @ + Abs(current_label.duration - cur_act.des_duration) ELSE @]

(* Variant: a continuation that does not advance the time.                  *)
same_activity_label_in_place(current_label, a) ==
    [current_label EXCEPT
        !.duration = @ + time_interval,
        !.chain = Chain(current_label)]

same_activity_label(current_label, a) ==
    LET time == current_label.time + time_interval
        charging == a.is_charging /\ current_label.current_soc < soc_full
        rp == get_charge_rate_and_price(a)
        delta_soc == IF charging
                     THEN Min(soc_full - current_label.current_soc, rp[1]) ELSE 0
        interval_cost == rp[2] * get_tou_factor(time) * delta_soc
    IN  [act_id |-> a.id,
         time |-> time,
         start_time |-> current_label.start_time,
         utility |-> current_label.utility,
         deviation_start |-> current_label.deviation_start,
         deviation_dur |-> current_label.deviation_dur,
         duration |-> current_label.duration + time_interval,
         mem |-> copyLinkedList(current_label.mem),
         soc_at_activity_start |-> current_label.soc_at_activity_start,
         current_soc |-> current_label.current_soc + delta_soc,
         charge_duration |-> current_label.charge_duration
                               + (IF charging THEN time_interval ELSE 0),
         delta_soc |-> delta_soc,
         charge_cost |-> current_label.charge_cost
                           + (IF charging THEN interval_cost ELSE 0),
         chain |-> Chain(current_label)]

(* Variant: `new_label->previous = current_label` left out.                 *)
update_label_from_activity_unlinked(current_label, a) ==
    [(IF a.id # current_label.act_id
      THEN new_activity_label(current_label, a)
      ELSE same_activity_label(current_label, a)) EXCEPT !.chain = <<>>]

update_label_from_activity(current_label, a) ==
    IF a.id # current_label.act_id
    THEN new_activity_label(current_label, a)
    ELSE same_activity_label(current_label, a)

-----------------------------------------------------------------------------
(* Bucket cells.  A cell bucket[t][i] is the list of L_list nodes that      *)
(* starts with the array element itself; a node is                          *)
(* [element: a label or NULL, previous: whether node->previous is non-null].*)

Node(el, prev) == [element |-> el, previous |-> prev]
EmptyCell == <<Node(NULL, FALSE)>>

create_bucket(a, b) == [t \in 0 .. a - 1 |-> [i \in 0 .. b - 1 |-> EmptyCell]]

(* `bucket` before create_bucket: no row.                                   *)
NoBucket == create_bucket(0, 0)

(* The labels a cell holds, in list order.                                  *)
RECURSIVE CellLabels(_)
CellLabels(cell) ==
    IF cell = <<>> THEN <<>>
    ELSE IF Head(cell).element = NULL THEN CellLabels(Tail(cell))
         ELSE <<Head(cell).element>> \o CellLabels(Tail(cell))

(* Variant: the least utility, as where utility is a cost to minimise.      *)
RECURSIVE find_worst_from(_, _)
find_worst_from(labels, bestL) ==
    IF labels = <<>> THEN bestL
    ELSE IF bestL = NULL \/ Head(labels).utility < bestL.utility
         THEN find_worst_from(Tail(labels), Head(labels))
         ELSE find_worst_from(Tail(labels), bestL)

(* find_best(B, o): the first label of strictly greatest utility; NULL for  *)
(* a list without labels.  -INFINITY is below every utility.                *)
RECURSIVE find_best_from(_, _)
find_best_from(labels, bestL) ==
    IF labels = <<>> THEN bestL
    ELSE IF bestL = NULL \/ Head(labels).utility > bestL.utility
         THEN find_best_from(Tail(labels), Head(labels))
         ELSE find_best_from(Tail(labels), bestL)

find_best(B) == find_best_from(CellLabels(B), NULL)


-----------------------------------------------------------------------------
(* remove_label and the dominance loop of DP() (scheduling.c:854-898).      *)

RemoveAt(cell, i) ==
    [k \in 1 .. Len(cell) - 1 |-> IF k < i THEN cell[k] ELSE cell[k + 1]]

(* remove_label(L), L the node at position i, by its four cases; the value  *)
(* is <<the list after the call, the position of the node returned (0 for   *)
(* NULL), whether the node L was freed>>.                                   *)
remove_label(cell, i) ==
    LET hasPrev == cell[i].previous
        hasNext == i < Len(cell)
    IN  IF hasPrev /\ hasNext
        THEN \* unlink L; L->next->previous = L->previous; free(L); return L->next
             <<[RemoveAt(cell, i) EXCEPT ![i].previous = TRUE], i, TRUE>>
        ELSE IF hasPrev /\ ~hasNext
        THEN \* L->previous->next = NULL; free(L); return NULL
             <<RemoveAt(cell, i), 0, TRUE>>
        ELSE IF ~hasPrev /\ hasNext
        THEN \* L takes the element of L->next, which is freed; return L
             LET moved == [cell EXCEPT ![i].element = cell[i + 1].element]
                 cut == RemoveAt(moved, i + 1)
             IN  <<IF i + 1 <= Len(cut)
                   THEN [cut EXCEPT ![i + 1].previous = TRUE]
                   ELSE cut,
                   i, FALSE>>
        ELSE \* a lone node: its element is cleared; return NULL
             <<[cell EXCEPT ![i].element = NULL], 0, FALSE>>

(* The while loop over list_1: [cell, list_2, dom], list_2 = 0 when it is   *)
(* left pointing to a freed node.                                           *)
RECURSIVE dominance_loop(_, _, _)
dominance_loop(cell, L1, i) ==
    IF dominates(L1, cell[i].element) # 0
    THEN LET r == remove_label(cell, i)
         IN  IF r[2] # 0
             THEN dominance_loop(r[1], L1, r[2])
             ELSE [cell |-> r[1], list_2 |-> IF r[3] THEN 0 ELSE i, dom |-> FALSE]
    ELSE IF dominates(cell[i].element, L1) # 0
         THEN [cell |-> cell, list_2 |-> i, dom |-> TRUE]
         ELSE IF i < Len(cell)
              THEN dominance_loop(cell, L1, i + 1)
              ELSE [cell |-> cell, list_2 |-> i, dom |-> FALSE]

(* The outcomes of processing L1 against a cell: a set of                   *)
(* [cell, crash], more than one where the code's behaviour is undefined     *)
(* (list_2 is read after its node was freed): the program crashes, or it    *)
(* goes on with L1 written to memory no list reaches.                       *)
insert_label(cell, L1) ==
    LET r == dominance_loop(cell, L1, 1)
    IN  IF r.dom
        THEN {[cell |-> r.cell, crash |-> FALSE]}
        ELSE IF r.list_2 = 0
        THEN {[cell |-> r.cell, crash |-> FALSE], [cell |-> r.cell, crash |-> TRUE]}
        ELSE IF r.cell[r.list_2].element = NULL
        THEN {[cell |-> [r.cell EXCEPT ![r.list_2].element = L1], crash |-> FALSE]}
        ELSE {[cell |-> Append(SubSeq(r.cell, 1, r.list_2), Node(L1, FALSE)),
               crash |-> FALSE]}

-----------------------------------------------------------------------------
(* DSSR(L) (scheduling.c:767-814).  Pointers into the chain of L are        *)
(* positions of Chain(L); 0 is NULL and p->previous is p - 1.               *)

GroupAt(ch, p) == Act(ch[p].act_id).group

(* The labels the first inner loop passes over.                             *)
IsLast(l) == l.act_id = num_activities - 1 \/ l.act_id = num_activities - 2

RECURSIVE SkipSame(_, _, _)
SkipSame(ch, p, id) ==
    IF p # 0 /\ ch[p].act_id = id THEN SkipSame(ch, p - 1, id) ELSE p

(* The outer loop, p1 going down the chain one label at a time:             *)
(* [cycle, p1, c_activity, group_activity, ub].  A label the first inner    *)
(* loop passes over is left for its predecessor; when that loop comes to    *)
(* p1 = NULL, the statement `p1 = p1->previous` of line 796 reads through   *)
(* NULL (ub).  At any other label the two loops over p2 look for a label    *)
(* of the same group before the run of its activity.                        *)
RECURSIVE DSSR_scan(_, _)
DSSR_scan(ch, p1) ==
    IF p1 = 0
    THEN [cycle |-> 0, p1 |-> 0, c_activity |-> 0, group_activity |-> 0, ub |-> FALSE]
    ELSE IF IsLast(ch[p1])
    THEN IF p1 = 1
         THEN [cycle |-> 0, p1 |-> 0, c_activity |-> 0, group_activity |-> 0,
               ub |-> TRUE]
         ELSE DSSR_scan(ch, p1 - 1)
    ELSE IF \E r \in 1 .. SkipSame(ch, p1, ch[p1].act_id) :
                GroupAt(ch, r) = GroupAt(ch, p1)
    THEN [cycle |-> 1, p1 |-> p1 - 1, c_activity |-> ch[p1].act_id,
          group_activity |-> GroupAt(ch, p1), ub |-> FALSE]
    ELSE DSSR_scan(ch, p1 - 1)

(* The activities add_memory is called on: those of the labels from p3      *)
(* back to the next label of c_activity (or to the seed).                   *)
RECURSIVE MemoryRun(_, _, _)
MemoryRun(ch, p3, c) ==
    IF p3 # 0 /\ ch[p3].act_id # c
    THEN {ch[p3].act_id} \cup MemoryRun(ch, p3 - 1, c)
    ELSE {}

(* [cycle, ub, add]: the value returned, whether behaviour was undefined,   *)
(* and the activities that get group_activity added to their memory.        *)
DSSR(L) ==
    IF L = NULL
    THEN [cycle |-> 0, ub |-> FALSE, group_activity |-> 0, add |-> {}]
    ELSE LET ch == Chain(L)
             s == DSSR_scan(ch, Len(ch))
         IN  [cycle |-> s.cycle,
              ub |-> s.ub,
              group_activity |-> s.group_activity,
              add |-> IF s.cycle = 1
                      THEN MemoryRun(ch, SkipSame(ch, s.p1, s.c_activity), s.c_activity)
                      ELSE {}]

(* add_memory(at, c) for every at in `add`.                                 *)
add_memory(acts, add, c) ==
    [k \in 1 .. Len(acts) |->
        IF (k - 1) \in add
        THEN [acts[k] EXCEPT !.memory = @ \cup {c}]
        ELSE acts[k]]


-----------------------------------------------------------------------------
(* Inputs.  The activity arrays enumerated follow the arrays of             *)
(* tests/test_scheduling.c, scaled to short horizons: activity 0 is dawn    *)
(* (window [0,0], min_duration 1, max_duration horizon - 2), activity N-1   *)
(* is dusk (window [0, horizon - 1], max_duration horizon), both Home       *)
(* (group 0) at the same place.                                             *)

ShortHorizon == 8
LongHorizon == 13
ChargeHorizon == 67  \* long enough for a second interval of time_interval = 60
MaxCount == 3        \* DSSR_count is counted up to MaxCount (it is never read)
MaxSolves == 2       \* main() is run MaxSolves times on one activity array

create_test_activity(id, x, group, earliest_start, latest_start, min_duration, max_duration, des_start_time, des_duration) ==
    [id |-> id, x |-> x, y |-> 0, group |-> group,
     earliest_start |-> earliest_start, latest_start |-> latest_start,
     min_duration |-> min_duration, max_duration |-> max_duration,
     des_start_time |-> des_start_time, des_duration |-> des_duration,
     charge_mode |-> 0, is_charging |-> FALSE, is_service_station |-> FALSE,
     memory |-> {}]

Charging(a, mode) == [a EXCEPT !.charge_mode = mode, !.is_charging = TRUE]

Dawn(H) == create_test_activity(0, 0, 0, 0, 0, 1, H - 2, 0, 0)
Dusk(id, H) == create_test_activity(id, 0, 0, 0, H - 1, 1, H, 0, 0)

(* test_home_only_schedule: dawn and dusk only.                             *)
HomeOnly(H) == <<Dawn(H), Dusk(1, H)>>

(* test_simple_schedule: one activity, charging selected with mode 1.       *)
Simple(H) ==
    <<Dawn(H),
      Charging(create_test_activity(1, 1, 2, 2, 4, 1, 3, 4, 2), 1),
      Dusk(2, H)>>

(* test_infeasible_time_window: the window opens too late in the day for    *)
(* min_duration (280, 281, 50 of 288 there).                                *)
InfeasibleWindow(H) ==
    <<Dawn(H),
      create_test_activity(1, 1, 2, H - 3, H - 2, 4, H, H - 3, 4),
      Dusk(2, H)>>

(* Two activities of one group (1) around one of another group; the second  *)
(* is activity N - 2.                                                       *)
SameGroupLast(H) ==
    <<Dawn(H),
      create_test_activity(1, 0, 1, 1, 2, 1, 2, 1, 1),
      create_test_activity(2, 0, 2, 2, 4, 1, 2, 2, 1),
      create_test_activity(3, 0, 1, 3, H - 3, 1, 2, 3, 1),
      Dusk(4, H)>>

(* The same three activities, the one of the other group being N - 2; the   *)
(* first is a fixed appointment, the second is wanted later than its window.*)
SameGroup(H) ==
    <<Dawn(H),
      create_test_activity(1, 0, 1, 1, 1, 1, 1, 1, 1),
      create_test_activity(2, 0, 1, 3, H - 3, 1, 2, 10, 1),
      create_test_activity(3, 0, 2, 2, 4, 1, 2, 2, 1),
      Dusk(4, H)>>

(* test_multi_activity_schedule has Home activities (group 0) between the   *)
(* others: here one, between two activities it alone connects.              *)
HomeBetween(H) ==
    <<Dawn(H),
      create_test_activity(1, 0, 1, 1, 1, 1, 1, 1, 1),
      create_test_activity(2, 0, 0, 0, H, 1, H, 0, 0),
      create_test_activity(3, 0, 2, 4, 5, 1, 2, 4, 1),
      Dusk(4, H)>>

(* A charger a short drive away, used with charge mode `mode`.              *)
Charger(H, mode) ==
    <<Dawn(H),
      Charging(create_test_activity(1, 3, 4, 2, 4, 1, 2, 2, 1), mode),
      Dusk(2, H)>>

(* Two activities of one group (1) and nothing else between dawn and dusk.  *)
TwoSameGroup(H) ==
    <<Dawn(H),
      create_test_activity(1, 0, 1, 1, 3, 1, 2, 1, 1),
      create_test_activity(2, 0, 1, 2, H - 3, 1, 2, 3, 1),
      Dusk(3, H)>>

(* A service station on the way, with charging selected (mode 2) or not.    *)
Station(H, charging) ==
    <<Dawn(H),
      [create_test_activity(1, 0, 4, 1, 4, 1, 2, 1, 1) EXCEPT
          !.is_service_station = TRUE,
          !.is_charging = charging,
          !.charge_mode = IF charging THEN 2 ELSE 0],
      create_test_activity(2, 0, 2, 2, 5, 1, 2, 3, 1),
      Dusk(3, H)>>

(* Four ways to one activity (6, group 1) at one time: from dawn and from   *)
(* activities 1, 2 and 3, of which 2 and 3 differ by their id only; later   *)
(* in the day a Home activity (4) and a second activity of group 3 (5).     *)
FourWays(H) ==
    <<Dawn(H),
      create_test_activity(1, 0, 3, 1, 5, 1, 2, 6, 1),
      create_test_activity(2, 0, 2, 1, 1, 1, 1, 1, 1),
      create_test_activity(3, 0, 2, 1, 1, 1, 1, 1, 1),
      create_test_activity(4, 0, 0, 5, 8, 1, H, 0, 0),
      create_test_activity(5, 0, 3, 7, 9, 1, 2, 7, 1),
      create_test_activity(6, 0, 1, 2, 2, 1, 3, 2, 3),
      Dusk(7, H)>>

(* One activity eleven distance units away: 5.5 minutes at speed 2.         *)
Detour(H) ==
    <<Dawn(H),
      create_test_activity(1, 11, 2, 1, 4, 1, 2, 2, 1),
      Dusk(2, H)>>

(* test_multi_activity_schedule has a Work activity (group 6): here it is   *)
(* the only activity of the day.                                            *)
Work(H) ==
    <<Dawn(H),
      create_test_activity(1, 0, 6, 1, 4, 1, 3, 2, 2),
      Dusk(2, H)>>

Input(acts, H, ti, sp, soc) ==
    [activities |-> acts, horizon |-> H, time_interval |-> ti, speed |-> sp,
     initial_soc |-> soc]

Horizons == {ShortHorizon, LongHorizon}

Inputs ==
    {Input(HomeOnly(H), H, ti, 1, soc_full) : H \in Horizons, ti \in {1, 5}}
    \cup {Input(Simple(H), H, ti, 1, soc_full) : H \in Horizons, ti \in {1, 5}}
    \cup {Input(InfeasibleWindow(H), H, ti, 1, soc_full) : H \in Horizons, ti \in {1, 5}}
    \cup {Input(SameGroupLast(H), H, 1, 1, soc_full) : H \in Horizons}
    \cup {Input(SameGroup(H), H, 1, 1, soc_full) : H \in Horizons}
    \cup {Input(HomeBetween(H), H, 1, 1, soc_full) : H \in Horizons}
    \cup {Input(TwoSameGroup(H), H, 1, 1, soc_full) : H \in Horizons}
    \cup {Input(Station(H, charging), H, 1, 1, soc_full) :
             H \in Horizons, charging \in BOOLEAN}
    \cup {Input(Simple(ShortHorizon), 0, ti, 1, soc_full) : ti \in {1, 5}}
    \cup {Input(FourWays(LongHorizon), LongHorizon, 1, 1, soc_full)}
    \cup {Input(Detour(LongHorizon), LongHorizon, 5, 2, soc_full)}
    \cup {Input(Work(ShortHorizon), ShortHorizon, 1, 1, soc_full)}
    \cup {Input(Charger(ChargeHorizon, mode), ChargeHorizon, 60, 1, soc) :
             mode \in 2 .. 4, soc \in {2, 4, soc_full - 10, soc_full}}

-----------------------------------------------------------------------------
(* main() and DP() as a state machine.                                      *)

Init ==
    /\ \E in \in Inputs :
          /\ activities = in.activities
          /\ horizon = in.horizon
          /\ time_interval = in.time_interval
          /\ speed = in.speed
          /\ initial_soc = in.initial_soc
          /\ stray \in IF \E k \in 1 .. Len(in.activities) :
                             in.activities[k].group + 1 \notin DOMAIN asc_parameters
                        THEN StrayValues
                        ELSE {0}
    /\ bucket = NoBucket
    /\ h = 0
    /\ act_index = 0
    /\ list = 1
    /\ a1 = 0
    /\ call = 23
    /\ pc = "main22"
    /\ DSSR_count = 0
    /\ final_schedule = NULL
    /\ solves = <<>>

Input_unchanged == UNCHANGED <<horizon, time_interval, speed, initial_soc, stray>>

(* main.c:22: create_bucket(horizon, max_num_activities); then DP().        *)
Main_CreateBucket ==
    /\ pc = "main22"
    /\ bucket' = create_bucket(horizon, num_activities)
    /\ pc' = "DP_seed"
    /\ call' = 23
    /\ UNCHANGED <<activities, h, act_index, list, a1, DSSR_count, final_schedule,
                   solves>>
    /\ Input_unchanged

(* DP() returns to main(): line 29 after the first call, line 37 in the     *)
(* loop; next is the loop test of line 30.                                  *)
DP_Return ==
    /\ pc' = "main30"
    /\ h' = 0 /\ act_index' = 0 /\ list' = 1 /\ a1' = 0
    /\ DSSR_count' = IF call = 23 THEN 0 ELSE Min(DSSR_count + 1, MaxCount)

(* DP(): the seed label, and the start of the loop over h.                  *)
DP_Seed ==
    /\ pc = "DP_seed"
    /\ LET ll == create_label(Act(0))
       IN  IF ll.time \in DOMAIN bucket
           THEN /\ bucket' = [bucket EXCEPT ![ll.time][0][1].element = ll]
                /\ IF ll.time < horizon - 1
                   THEN /\ pc' = "DP_loop"
                        /\ h' = ll.time /\ act_index' = 0 /\ list' = 1 /\ a1' = 0
                        /\ UNCHANGED DSSR_count
                   ELSE DP_Return
           ELSE \* bucket[ll->time] lies outside the rows allocated: the
                \* program crashes, or goes on with ll in no list
                \/ /\ pc' = "crashed"
                   /\ UNCHANGED <<bucket, h, act_index, list, a1, DSSR_count>>
                \/ /\ bucket' = bucket
                   /\ IF ll.time < horizon - 1
                      THEN /\ pc' = "DP_loop"
                           /\ h' = ll.time /\ act_index' = 0 /\ list' = 1 /\ a1' = 0
                           /\ UNCHANGED DSSR_count
                      ELSE DP_Return
    /\ UNCHANGED <<activities, call, final_schedule, solves>>
    /\ Input_unchanged

(* Variant: the loop over h goes on to the last row, horizon - 1.           *)
DP_Advance_last_row(b) ==
    IF a1 + 1 < num_activities
    THEN /\ a1' = a1 + 1
         /\ UNCHANGED <<h, act_index, list, pc, DSSR_count>>
    ELSE IF list < Len(b[h][act_index])
    THEN /\ list' = list + 1 /\ a1' = 0
         /\ UNCHANGED <<h, act_index, pc, DSSR_count>>
    ELSE IF act_index + 1 < num_activities
    THEN /\ act_index' = act_index + 1 /\ list' = 1 /\ a1' = 0
         /\ UNCHANGED <<h, pc, DSSR_count>>
    ELSE IF h + 1 < horizon
    THEN /\ h' = h + 1 /\ act_index' = 0 /\ list' = 1 /\ a1' = 0
         /\ UNCHANGED <<pc, DSSR_count>>
    ELSE DP_Return

(* The loop control of DP() after the body for (h, act_index, list, a1),    *)
(* b being the bucket after the body.                                       *)
DP_Advance(b) ==
    IF a1 + 1 < num_activities
    THEN /\ a1' = a1 + 1
         /\ UNCHANGED <<h, act_index, list, pc, DSSR_count>>
    ELSE IF list < Len(b[h][act_index])
    THEN /\ list' = list + 1 /\ a1' = 0
         /\ UNCHANGED <<h, act_index, pc, DSSR_count>>
    ELSE IF act_index + 1 < num_activities
    THEN /\ act_index' = act_index + 1 /\ list' = 1 /\ a1' = 0
         /\ UNCHANGED <<h, pc, DSSR_count>>
    ELSE IF h + 1 < horizon - 1
    THEN /\ h' = h + 1 /\ act_index' = 0 /\ list' = 1 /\ a1' = 0
         /\ UNCHANGED <<pc, DSSR_count>>
    ELSE DP_Return

CurrentLabel == bucket[h][act_index][list].element

(* One pass of the loop over a1 with is_feasible false.                     *)
DP_Skip ==
    /\ pc = "DP_loop"
    /\ ~is_feasible(CurrentLabel, Act(a1))
    /\ DP_Advance(bucket)
    /\ UNCHANGED <<activities, bucket, call, final_schedule, solves>>
    /\ Input_unchanged

(* One pass of the loop over a1 with is_feasible true: the new label L1 is  *)
(* processed against bucket[L1->time][a1].                                  *)
DP_Extend ==
    /\ pc = "DP_loop"
    /\ is_feasible(CurrentLabel, Act(a1))
    /\ LET L1 == update_label_from_activity(CurrentLabel, Act(a1))
       IN  IF L1.time \in DOMAIN bucket
           THEN \E out \in insert_label(bucket[L1.time][a1], L1) :
                   IF out.crash
                   THEN /\ pc' = "crashed"
                        /\ UNCHANGED <<bucket, h, act_index, list, a1, DSSR_count>>
                   ELSE LET after == [bucket EXCEPT ![L1.time][a1] = out.cell]
                        IN  /\ bucket' = after
                            /\ DP_Advance(after)
           ELSE \* bucket[L1->time] lies outside the rows allocated: the
                \* program crashes, or goes on with L1 in no list
                \/ /\ pc' = "crashed"
                   /\ UNCHANGED <<bucket, h, act_index, list, a1, DSSR_count>>
                \/ /\ bucket' = bucket
                   /\ DP_Advance(bucket)
    /\ UNCHANGED <<activities, call, final_schedule, solves>>
    /\ Input_unchanged

(* `li = &bucket[horizon - 1][max_num_activities - 1]`.  Where that row was *)
(* not allocated the program crashes at its first read (Main_Exit), or goes *)
(* on having found no label there.                                          *)
FinalOutside == (horizon - 1) \notin DOMAIN bucket
FinalCell ==
    IF FinalOutside THEN EmptyCell ELSE bucket[horizon - 1][num_activities - 1]

(* main.c:30: while (DSSR(find_best(li, 0))), DSSR returning 1:             *)
(* free_bucket(); create_bucket(); then DP() again.                         *)
Main_Restart ==
    /\ pc = "main30"
    /\ LET d == DSSR(find_best(FinalCell))
       IN  /\ ~d.ub
           /\ d.cycle = 1
           /\ activities' = add_memory(activities, d.add, d.group_activity)
    /\ bucket' = create_bucket(horizon, num_activities)
    /\ pc' = "DP_seed"
    /\ call' = 36
    /\ UNCHANGED <<h, act_index, list, a1, DSSR_count, final_schedule, solves>>
    /\ Input_unchanged

(* main.c:30, DSSR returning 0: the loop ends.  Where DSSR reads            *)
(* p1->previous with p1 = NULL the program crashes, or the read gives NULL  *)
(* and DSSR returns 0.                                                      *)
Main_Exit ==
    /\ pc = "main30"
    /\ LET d == DSSR(find_best(FinalCell))
       IN  \/ /\ ~d.ub /\ d.cycle = 0
              /\ pc' = "main45"
           \/ /\ d.ub
              /\ pc' \in {"main45", "crashed"}
           \/ /\ FinalOutside
              /\ pc' = "crashed"
    /\ UNCHANGED <<activities, bucket, h, act_index, list, a1, call, DSSR_count,
                   final_schedule, solves>>
    /\ Input_unchanged

(* What the caller reads once main() has returned.                          *)
Solved(count, best) ==
    [count |-> count, utility |-> IF best = NULL THEN NULL ELSE best.utility]

(* main.c:45: final_schedule = find_best(li, 0), and main() returns.        *)
Main_Final ==
    /\ pc = "main45"
    /\ final_schedule' = find_best(FinalCell)
    /\ solves' = Append(solves, Solved(DSSR_count, find_best(FinalCell)))
    /\ pc' = "done"
    /\ UNCHANGED <<activities, bucket, h, act_index, list, a1, call, DSSR_count>>
    /\ Input_unchanged

(* main() is run again by the caller on the same activity array: the       *)
(* globals are as the solve before left them.                               *)
Main_Again ==
    /\ pc = "done"
    /\ Len(solves) < MaxSolves
    /\ pc' = "main22"
    /\ UNCHANGED <<activities, bucket, h, act_index, list, a1, call, DSSR_count,
                   final_schedule, solves>>
    /\ Input_unchanged

Next ==
    \/ Main_Again
    \/ Main_CreateBucket
    \/ DP_Seed
    \/ DP_Skip
    \/ DP_Extend
    \/ Main_Restart
    \/ Main_Exit
    \/ Main_Final

Spec == Init /\ [][Next]_vars

(* main() is a sequential program: it takes its next step whenever it has   *)
(* one.                                                                     *)
FairSpec == Spec /\ WF_vars(Next)

-----------------------------------------------------------------------------
(* Properties.                                                              *)

(* The labels the bucket holds.                                             *)
LabelsOfBucket ==
    IF bucket = NoBucket
    THEN {}
    ELSE UNION {UNION {{bucket[t][i][k].element : k \in 1 .. Len(bucket[t][i])} :
                          i \in DOMAIN bucket[t]} :
                   t \in DOMAIN bucket} \ {NULL}

(* DP() is about to extend the label `L` of its loop by activities[a1].     *)
PendingExtension == pc = "DP_loop" /\ is_feasible(CurrentLabel, Act(a1))
PendingTransition == PendingExtension /\ Act(a1).id # CurrentLabel.act_id
NewLabel == update_label_from_activity(CurrentLabel, Act(a1))

Candidate(id) == id # 0 /\ id # num_activities - 1

(* C1: when main() ends with a non-null final_schedule, its chain has no    *)
(* two labels of different activities with one group.  Dawn and dusk, which *)
(* are both Home in every input, are left out of the comparison.            *)
C1_FinalChainElementary ==
    (pc = "done" /\ final_schedule # NULL) =>
        LET ch == Chain(final_schedule)
        IN  \A p, q \in 1 .. Len(ch) :
                (/\ Candidate(ch[p].act_id) /\ Candidate(ch[q].act_id)
                 /\ ch[p].act_id # ch[q].act_id)
                => GroupAt(ch, p) # GroupAt(ch, q)

(* C2: the loop of main.c:30 eventually exits, main() reaching its end (or  *)
(* the program having crashed).                                             *)
C2_DSSRLoopExits == <>(pc = "done" \/ pc = "crashed")

SocInRange(l) == 0 <= l.current_soc /\ l.current_soc <= soc_full

(* C3: with initial_soc in [0, 1] (every input), each label created has     *)
(* its current_soc in [0, 1], and no transition is taken whose trip         *)
(* consumes more than the current SOC.                                      *)
C3_SocInRange ==
    /\ \A L \in LabelsOfBucket :
          \A k \in 1 .. Len(Chain(L)) : SocInRange(Chain(L)[k])
    /\ PendingExtension => SocInRange(NewLabel)
    /\ PendingTransition =>
          energy_consumed_soc(Act(CurrentLabel.act_id), Act(a1))
              <= CurrentLabel.current_soc

(* C3, its case: a label that arrived at a charger with less than          *)
(* initial_soc and has charged there for a second interval.                 *)
C3_Witness ==
    \E L \in LabelsOfBucket :
        /\ L.soc_at_activity_start < initial_soc
        /\ L.charge_duration > time_interval
        /\ L.delta_soc > 0
        /\ L.current_soc > L.soc_at_activity_start + L.delta_soc

(* C4: every label of the bucket and of its chain whose activity is not     *)
(* dawn has earliest_start <= start_time <= latest_start of its activity.   *)
C4_StartInWindow ==
    \A L \in LabelsOfBucket :
        \A k \in 1 .. Len(Chain(L)) :
            LET l == Chain(L)[k]
            IN  l.act_id # 0 =>
                    /\ Act(l.act_id).earliest_start <= l.start_time
                    /\ l.start_time <= Act(l.act_id).latest_start

(* C4, its case: a label of a candidate activity reached by a trip, at its  *)
(* latest start, and continued there.                                       *)
C4_Witness ==
    \E L \in LabelsOfBucket :
        /\ Candidate(L.act_id)
        /\ L.start_time = Act(L.act_id).latest_start
        /\ L.duration > Act(L.act_id).min_duration
        /\ travel_time(Act(0), Act(L.act_id)) > 0

(* C5: whenever a label L at activity b is extended to another activity,    *)
(* min_duration(b) <= L.duration <= max_duration(b).                        *)
C5_DurationWithinBounds ==
    PendingTransition =>
        /\ Act(CurrentLabel.act_id).min_duration <= CurrentLabel.duration
        /\ CurrentLabel.duration <= Act(CurrentLabel.act_id).max_duration

MaxCompletion == 3

(* The label after the extensions of L by the activities of seq, in the     *)
(* order DP() makes them; NULL where one is not feasible or starts from a   *)
(* row DP() does not visit.                                                 *)
RECURSIVE Extend(_, _)
Extend(L, seq) ==
    IF seq = <<>>
    THEN L
    ELSE IF L # NULL /\ L.time < horizon - 1 /\ is_feasible(L, Act(Head(seq)))
         THEN Extend(update_label_from_activity(L, Act(Head(seq))), Tail(seq))
         ELSE NULL

StepSequences(n) == UNION {[1 .. m -> 0 .. num_activities - 1] : m \in 1 .. n}

(* The activities of a sequence of steps, stays at one activity merged.     *)
RECURSIVE Collapse(_)
Collapse(seq) ==
    IF Len(seq) <= 1 THEN seq
    ELSE IF seq[1] = seq[2] THEN Collapse(Tail(seq))
         ELSE <<seq[1]>> \o Collapse(Tail(seq))

ToDusk(L, seq) ==
    /\ Last(seq) = num_activities - 1
    /\ Extend(L, seq) # NULL

(* Every completion of L2 to dusk is matched from L1: the same activities   *)
(* in the same order (stays of any length), ending with utility at least    *)
(* as great.                                                                *)
CompletionsMatched(L1, L2) ==
    \A seq \in StepSequences(MaxCompletion) :
        ToDusk(L2, seq) =>
            \E seq1 \in StepSequences(MaxCompletion + 1) :
                /\ Collapse(<<L1.act_id>> \o seq1) = Collapse(<<L2.act_id>> \o seq)
                /\ ToDusk(L1, seq1)
                /\ Extend(L1, seq1).utility >= Extend(L2, seq).utility

(* C6: for the label DP() is about to create and every label of the cell    *)
(* it goes to, whichever dominates has every completion of the other        *)
(* matched.                                                                 *)
C6_DominanceKeepsCompletions ==
    (PendingExtension /\ NewLabel.time \in DOMAIN bucket) =>
        LET labels == CellLabels(bucket[NewLabel.time][a1])
        IN  \A k \in 1 .. Len(labels) :
                /\ dominates(NewLabel, labels[k]) = 2
                      => CompletionsMatched(NewLabel, labels[k])
                /\ dominates(labels[k], NewLabel) = 2
                      => CompletionsMatched(labels[k], NewLabel)

AfterDP == pc \in {"main30", "main45", "done"}

(* C7: after DP(), a non-null find_best of bucket[horizon-1][N-1] is a      *)
(* label of dusk at time horizon - 1 whose chain starts with the dawn seed  *)
(* (the one label DP() stored at bucket[seed time][0]).                     *)
C7_BestIsDuskFromSeed ==
    AfterDP =>
        LET best == find_best(FinalCell)
        IN  best # NULL =>
                /\ best.act_id = num_activities - 1
                /\ best.time = horizon - 1
                /\ LET seed == Chain(best)[1]
                   IN  /\ seed.act_id = 0
                       /\ seed.start_time = 0
                       /\ seed.time = Act(0).min_duration
                       /\ seed.duration = Act(0).min_duration
                       /\ seed.utility = 0
                       /\ seed.current_soc = initial_soc
                       /\ bucket[seed.time][0][1].element # NULL
                       /\ Flat(bucket[seed.time][0][1].element) = seed
                /\ \A k \in 2 .. Len(Chain(best)) :
                       Chain(best)[k].time > Chain(best)[k - 1].time

(* C7, its case: DP() is over and the best label of the final cell came     *)
(* from the seed through a candidate activity.                              *)
C7_Witness ==
    /\ AfterDP
    /\ find_best(FinalCell) # NULL
    /\ \E k \in 1 .. Len(Chain(find_best(FinalCell))) :
          Candidate(Chain(find_best(FinalCell))[k].act_id)

(* C8: for every cell of the bucket, find_best gives NULL exactly when the  *)
(* cell holds no label, and otherwise a label of the cell whose utility is  *)
(* the greatest of the cell.                                                *)
C8_FindBestIsMax ==
    bucket # NoBucket =>
        \A t \in DOMAIN bucket : \A i \in DOMAIN bucket[t] :
            LET labels == CellLabels(bucket[t][i])
                best == find_best(bucket[t][i])
            IN  /\ (best = NULL) <=> (labels = <<>>)
                /\ best # NULL =>
                      /\ \E k \in 1 .. Len(labels) : labels[k] = best
                      /\ \A k \in 1 .. Len(labels) : labels[k].utility <= best.utility

(* C8, its case: a cell with two labels of different utilities.             *)
C8_Witness ==
    /\ bucket # NoBucket
    /\ \E t \in DOMAIN bucket : \E i \in DOMAIN bucket[t] :
          LET labels == CellLabels(bucket[t][i])
          IN  /\ Len(labels) >= 2
              /\ labels[1].utility # labels[2].utility

(* An activity that cannot be fitted: started at its earliest, its          *)
(* min_duration and the trip home do not end before the horizon.            *)
CannotFit(a) ==
    a.earliest_start + a.min_duration + travel_time(a, Act(num_activities - 1))
        >= horizon - 1

(* C9: with a candidate activity that cannot be fitted, DP() leaves         *)
(* bucket[horizon-1][N-1] without a label and find_best gives NULL.         *)
C9_InfeasibleWindowGivesNull ==
    (AfterDP /\ \E i \in 1 .. num_activities - 2 : CannotFit(Act(i))) =>
        /\ CellLabels(FinalCell) = <<>>
        /\ find_best(FinalCell) = NULL

(* C10: with dawn and dusk only, main() ends, with a final_schedule that is *)
(* a label of dusk (id 1) of utility 0.                                     *)
C10_HomeOnlySolved ==
    (num_activities = 2 /\ pc \in {"done", "crashed"}) =>
        /\ pc = "done"
        /\ final_schedule # NULL
        /\ final_schedule.act_id = 1
        /\ final_schedule.utility = 0

(* The candidate activities of the labels of a chain.                       *)
Visited(L) == {Chain(L)[k].act_id : k \in 1 .. Len(Chain(L))} \ {0, num_activities - 1}

(* The input has exactly two candidate activities, of one non-home group.   *)
TwoOfOneGroup ==
    /\ num_activities = 4
    /\ Act(1).group = Act(2).group
    /\ Act(1).group # 0

(* C11: with two activities of one non-home group between dawn and dusk,    *)
(* the best label of the first DP() holds both and DSSR reports a cycle on  *)
(* it; main() ends with a schedule holding exactly one of them and          *)
(* DSSR_count = 1.                                                          *)
C11_DSSRTriggersOnce ==
    TwoOfOneGroup =>
        /\ (pc = "main30" /\ call = 23) =>
               /\ find_best(FinalCell) # NULL
               /\ Visited(find_best(FinalCell)) = {1, 2}
               /\ DSSR(find_best(FinalCell)).cycle = 1
        /\ pc = "done" =>
               /\ final_schedule # NULL
               /\ Cardinality(Visited(final_schedule)) = 1
               /\ DSSR_count = 1

(* C12: no label of the bucket, nor of a chain, nor the label DP() is       *)
(* about to create, is at a service station that has charging not selected. *)
C12_NoStationWithoutCharging ==
    /\ \A L \in LabelsOfBucket :
          \A k \in 1 .. Len(Chain(L)) :
              ~(/\ Act(Chain(L)[k].act_id).is_service_station
                /\ ~Act(Chain(L)[k].act_id).is_charging)
    /\ PendingExtension =>
          ~(Act(a1).is_service_station /\ ~Act(a1).is_charging)

(* C12, its case: DP() tries a service station without charging from a     *)
(* label that could go there were it no service station, and rejects it.    *)
C12_Witness ==
    /\ pc = "DP_loop"
    /\ Act(a1).is_service_station /\ ~Act(a1).is_charging
    /\ ~is_feasible(CurrentLabel, Act(a1))
    /\ is_feasible(CurrentLabel, [Act(a1) EXCEPT !.is_service_station = FALSE])

(* The rate is power / battery_capacity * (time_interval / 60), in SOC      *)
(* units, written without division.                                         *)
ExactRate(rate, power) ==
    rate * 60 * battery_capacity = power * time_interval * SocScale

(* C13: with time_interval from 1 to 59 minutes the three rates are         *)
(* power / battery_capacity * (time_interval / 60), and                     *)
(* 0 < slow_charge_rate < fast_charge_rate < rapid_charge_rate.             *)
C13_ChargeRatesOrdered ==
    time_interval \in 1 .. 59 =>
        /\ ExactRate(slow_charge_rate, slow_charge_power)
        /\ ExactRate(fast_charge_rate, fast_charge_power)
        /\ ExactRate(rapid_charge_rate, rapid_charge_power)
        /\ slow_charge_rate > 0
        /\ fast_charge_rate > slow_charge_rate
        /\ rapid_charge_rate > fast_charge_rate

AnyMemory == \E i \in 0 .. num_activities - 1 : Act(i).memory # {}

(* C14: a second main() on the same activity array takes as many DSSR       *)
(* iterations as the first and returns the same utility.                    *)
C14_SecondSolveAgrees ==
    Len(solves) >= 2 =>
        /\ solves[2].count = solves[1].count
        /\ solves[2].utility = solves[1].utility

(* C15: when main() starts (before the first DP()), the memory of every     *)
(* activity is empty, whatever the solve before added.                      *)
C15_MemoryEmptyAtStart ==
    pc = "main22" => ~AnyMemory

(* The statement main() or DP() is at reads through a null pointer, reads   *)
(* a freed list node, or uses a row of the bucket that was not allocated.   *)
NullRead == pc = "main30" /\ DSSR(find_best(FinalCell)).ub
RowOutside == PendingExtension /\ NewLabel.time \notin DOMAIN bucket
FreedRead ==
    /\ PendingExtension
    /\ NewLabel.time \in DOMAIN bucket
    /\ Cardinality(insert_label(bucket[NewLabel.time][a1], NewLabel)) > 1

(* C16: a solve is determined by its input.  Every step of main() and DP()  *)
(* is a function of the state except at the three kinds of statement        *)
(* above, so two solves from one input run through the same DP() calls to   *)
(* the same best label exactly when none of them is reached.                *)
C16_SolveDetermined == ~NullRead /\ ~RowOutside /\ ~FreedRead

(* The labels dominates() is called on, and may be called on: those of the  *)
(* bucket and the one DP() is about to create.                              *)
LabelsCompared ==
    LabelsOfBucket \cup (IF PendingExtension THEN {NewLabel} ELSE {})

(* C17: two labels each of which dominates the other have the same          *)
(* activity, utility, time and mem.                                         *)
C17_DominanceAntisymmetric ==
    \A L1, L2 \in LabelsCompared :
        (dominates(L1, L2) # 0 /\ dominates(L2, L1) # 0) =>
            /\ L1.act_id = L2.act_id
            /\ L1.utility = L2.utility
            /\ L1.time = L2.time
            /\ L1.mem = L2.mem

(* C17, its case: DP() is about to create a label that dominates, and is    *)
(* dominated by, a different label of the bucket.                           *)
C17_Witness ==
    /\ PendingExtension
    /\ \E L2 \in LabelsOfBucket :
          /\ L2 # NewLabel
          /\ dominates(NewLabel, L2) = 2
          /\ dominates(L2, NewLabel) = 2

(* The entry of group g is stored as supplied.                              *)
StoredAs(stored, supplied, g) ==
    (g + 1) \in DOMAIN stored /\ stored[g + 1] = supplied[g + 1]

(* C18: once set_general_parameters has stored horizon and time_interval,   *)
(* for every group tag 0..7 the asc, early, late, long and short            *)
(* coefficient stored is the entry of the array supplied.                   *)
C18_CoefficientsStored ==
    (horizon \in Nat /\ time_interval \in Nat) => \A g \in 0 .. 7 :
        /\ StoredAs(asc_parameters, asc, g)
        /\ StoredAs(early_parameters, early, g)
        /\ StoredAs(late_parameters, late, g)
        /\ StoredAs(long_parameters, longp, g)
        /\ StoredAs(short_parameters, shortp, g)

(* DP() is about to store the seed in a row that was not allocated.         *)
SeedOutside == pc = "DP_seed" /\ create_label(Act(0)).time \notin DOMAIN bucket

(* C19: with horizon = 0 no row outside the bucket is used, when the seed   *)
(* is stored or when the final cell is read, and main() ends with a null    *)
(* final_schedule.                                                          *)
C19_ZeroHorizonInfeasible ==
    horizon = 0 =>
        /\ ~SeedOutside
        /\ ~(pc \in {"main30", "main45"} /\ FinalOutside)
        /\ pc # "crashed"
        /\ pc = "done" => final_schedule = NULL

(* DP() is about to extend the label of its loop by its own activity.       *)
PendingContinuation == PendingExtension /\ Act(a1).id = CurrentLabel.act_id

(* C20: a continuation gives a label one time slot later and one time slot  *)
(* longer (time and duration count slots: they index the rows of the        *)
(* bucket), for any time_interval, with the start_time,                     *)
(* soc_at_activity_start, mem and utility of the label continued.           *)
C20_ContinuationAdvancesOneSlot ==
    PendingContinuation =>
        /\ NewLabel.time = CurrentLabel.time + 1
        /\ NewLabel.duration = CurrentLabel.duration + 1
        /\ NewLabel.start_time = CurrentLabel.start_time
        /\ NewLabel.soc_at_activity_start = CurrentLabel.soc_at_activity_start
        /\ NewLabel.mem = CurrentLabel.mem
        /\ NewLabel.utility = CurrentLabel.utility

(* C21: the label DP() is about to create, by transition or continuation,   *)
(* has its time in 0 .. horizon - 1, the rows create_bucket allocated, and  *)
(* so has every label stored.                                               *)
C21_LabelTimeWithinRows ==
    /\ PendingExtension =>
          (0 <= NewLabel.time /\ NewLabel.time <= horizon - 1)
    /\ \A L \in LabelsOfBucket : 0 <= L.time /\ L.time <= horizon - 1

(* C22: the label of a transition to activity a has for mem the mem of the  *)
(* label it comes from, with a's group and a's memory added; and the mem    *)
(* of every label stored holds the group of every activity of its chain.    *)
C22_MemIsUnion ==
    /\ PendingTransition =>
          NewLabel.mem = CurrentLabel.mem \cup {Act(a1).group} \cup Act(a1).memory
    /\ \A L \in LabelsOfBucket :
          \A k \in 1 .. Len(Chain(L)) : GroupAt(Chain(L), k) \in L.mem

(* C23: DP() never finds feasible a transition from the label of its loop   *)
(* to another activity whose group is in the label's mem, whatever the      *)
(* group (Home, 0, included).                                               *)
C23_GroupInMemRejected ==
    (/\ pc = "DP_loop"
     /\ CurrentLabel # NULL
     /\ Act(a1).id # CurrentLabel.act_id
     /\ Act(a1).group \in CurrentLabel.mem)
    => ~is_feasible(CurrentLabel, Act(a1))

(* The cell DP() is about to process its new label against, and the set of  *)
(* labels a list of nodes holds.                                            *)
TargetCell == bucket[NewLabel.time][a1]
LabelSet(cell) == {cell[k].element : k \in 1 .. Len(cell)} \ {NULL}

(* The label DP() is about to create has a cell among the allocated rows.   *)
PendingInsert == PendingExtension /\ NewLabel.time \in DOMAIN bucket

(* The labels the cell is to hold after L1 was processed: those it held     *)
(* that L1 does not dominate, and L1 where none of these dominates it.      *)
Undominated(cell, L1) ==
    LET kept == {E \in LabelSet(cell) : dominates(L1, E) = 0}
    IN  kept \cup (IF \E E \in kept : dominates(E, L1) # 0 THEN {} ELSE {L1})

(* C24: once DP() has processed its new label against the target cell, the  *)
(* cell holds exactly the labels it held that the new label does not        *)
(* dominate, plus the new label iff no label of the cell dominates it; and  *)
(* no freed list node is read on the way.                                   *)
C24_CellAfterInsert ==
    PendingInsert =>
        \A out \in insert_label(TargetCell, NewLabel) :
            /\ ~out.crash
            /\ LabelSet(out.cell) = Undominated(TargetCell, NewLabel)

(* Two labels dominates() cannot tell apart.                                *)
Tied(E, L1) ==
    /\ E.act_id = L1.act_id
    /\ E.utility = L1.utility
    /\ E.time = L1.time
    /\ E.mem = L1.mem

(* C25: when the label DP() creates has the activity, utility, time and mem *)
(* of a label E stored in its cell, the step that processes it leaves E in  *)
(* the cell and the new label out of it.                                    *)
C25_TieKeepsStored ==
    [][\A E \in LabelsOfBucket :
          (/\ PendingInsert
           /\ E \in LabelSet(TargetCell)
           /\ E # NewLabel
           /\ Tied(E, NewLabel)
           /\ pc' # "crashed")
          => /\ E \in LabelSet(bucket'[NewLabel.time][a1])
             /\ NewLabel \notin LabelSet(bucket'[NewLabel.time][a1])]_vars

(* C26: dominates(L1, L2) with L1 non-null is nonzero iff L2 is null, or    *)
(* the two labels have one act_id, every group of L2.mem is in L1.mem,      *)
(* L1.utility >= L2.utility and L1.time <= L2.time; dominates(NULL, L2) is  *)
(* 0.                                                                       *)
C26_DominatesCharacterised ==
    \A L1, L2 \in LabelsCompared \cup {NULL} :
        IF L1 = NULL
        THEN dominates(L1, L2) = 0
        ELSE (dominates(L1, L2) # 0)
                <=> \/ L2 = NULL
                    \/ /\ L1.act_id = L2.act_id
                       /\ L2.mem \subseteq L1.mem
                       /\ L1.utility >= L2.utility
                       /\ L1.time <= L2.time

(* C26, its case: the label DP() is about to create dominates a stored      *)
(* label of a smaller mem, and fails to dominate another of no greater      *)
(* utility whose mem it does not contain.                                   *)
C26_Witness ==
    /\ PendingInsert
    /\ \E E1, E2 \in LabelSet(TargetCell) :
          /\ dominates(NewLabel, E1) = 2
          /\ E1.mem # NewLabel.mem
          /\ dominates(NewLabel, E2) = 0
          /\ NewLabel.utility >= E2.utility

(* The label main() hands to DSSR at line 30.                               *)
BestLabel == find_best(FinalCell)

(* The activity a chain visits immediately before dusk (dusk itself where   *)
(* the chain has no other label).                                           *)
RECURSIVE BeforeDusk(_, _)
BeforeDusk(ch, p) ==
    IF p = 0 THEN num_activities - 1
    ELSE IF ch[p].act_id # num_activities - 1 THEN ch[p].act_id
         ELSE BeforeDusk(ch, p - 1)

(* A chain, its dusk labels and the labels of `skipped` left out, has two   *)
(* labels of different activities with one group.                           *)
GroupTwice(ch, skipped) ==
    \E p, q \in 1 .. Len(ch) :
        /\ ch[p].act_id \notin {num_activities - 1, skipped}
        /\ ch[q].act_id \notin {num_activities - 1, skipped}
        /\ ch[p].act_id # ch[q].act_id
        /\ GroupAt(ch, p) = GroupAt(ch, q)

(* C27: DSSR(B) returns 1 iff the chain of B, without its dusk labels and   *)
(* the labels of the activity visited immediately before dusk, has two      *)
(* labels of different ids and one group; otherwise it returns 0.           *)
C27_DSSRReturnsCycle ==
    (pc = "main30" /\ BestLabel # NULL /\ ~DSSR(BestLabel).ub) =>
        LET ch == Chain(BestLabel)
        IN  /\ DSSR(BestLabel).cycle \in {0, 1}
            /\ DSSR(BestLabel).cycle = 1
                  <=> GroupTwice(ch, BeforeDusk(ch, Len(ch)))

(* The cycle DSSR finds on the best label: the position in the chain of the *)
(* label of the outer activity c it stops at, and the activity d of the     *)
(* inner occurrence, the first label of the group of c that the loop over   *)
(* p2 meets.                                                                *)
OuterPosition == DSSR_scan(Chain(BestLabel), Len(Chain(BestLabel))).p1 + 1
InnerOccurrence ==
    LET ch == Chain(BestLabel)
        top == SkipSame(ch, OuterPosition, ch[OuterPosition].act_id)
        r == CHOOSE k \in 1 .. top :
                /\ GroupAt(ch, k) = GroupAt(ch, OuterPosition)
                /\ \A j \in (k + 1) .. top : GroupAt(ch, j) # GroupAt(ch, OuterPosition)
    IN  ch[r].act_id

(* The activities of the labels before the label of c, c and d left out.    *)
BeforeOuter ==
    LET ch == Chain(BestLabel)
    IN  {ch[k].act_id : k \in 1 .. OuterPosition - 1}
            \ {ch[OuterPosition].act_id, InnerOccurrence}

(* C28: when DSSR finds a cycle of group g with outer activity c and inner  *)
(* occurrence d, g is added to the memory of exactly the activities of the  *)
(* chain labels before c that are neither c nor d; the memory of every      *)
(* other activity, d included, is as before.                                *)
C28_MemoryGain ==
    [][(pc = "main30" /\ pc' = "DP_seed") =>
          \A i \in 0 .. num_activities - 1 :
              activities'[i + 1].memory =
                  IF i \in BeforeOuter
                  THEN Act(i).memory \cup {DSSR(BestLabel).group_activity}
                  ELSE Act(i).memory]_vars

(* C29: every DSSR call that returns 1 leaves at least one activity with a  *)
(* memory that, as a set, strictly contains the memory it had before the    *)
(* call.                                                                    *)
C29_CycleGrowsMemory ==
    [][(pc = "main30" /\ pc' = "DP_seed") =>
          \E i \in 0 .. num_activities - 1 :
              /\ Act(i).memory \subseteq activities'[i + 1].memory
              /\ Act(i).memory # activities'[i + 1].memory]_vars

(* C30: whatever label main() hands to it, a null label and a chain of      *)
(* labels of activities N - 1 and N - 2 only included, DSSR returns 0 or 1  *)
(* and reads `previous` of no null label.                                   *)
C30_DSSRReadsNoNull ==
    pc = "main30" =>
        /\ DSSR(BestLabel).cycle \in {0, 1}
        /\ ~DSSR(BestLabel).ub

(* The label from which the activity of L was entered: the last label of    *)
(* another activity in the chain of L (NULL for dawn).                      *)
RECURSIVE EnteredFromAt(_, _, _)
EnteredFromAt(ch, p, id) ==
    IF p = 0 THEN NULL
    ELSE IF ch[p].act_id # id THEN ch[p]
         ELSE EnteredFromAt(ch, p - 1, id)
EnteredFrom(L) == EnteredFromAt(Chain(L), Len(Chain(L)), L.act_id)

(* The charging-cost term of the utility of the label DP() is about to      *)
(* create: its utility less the utility update_utility gives it when the    *)
(* cost of the label left is that of its predecessor.                       *)
ChargeCostTerm ==
    NewLabel.utility
        - update_utility(NewLabel,
                         [CurrentLabel EXCEPT
                             !.charge_cost = Previous(CurrentLabel).charge_cost])

(* A label leaves a charging activity that lasted one continuation step or  *)
(* more.                                                                    *)
LeavingCharging ==
    /\ PendingTransition
    /\ Act(CurrentLabel.act_id).is_charging
    /\ Previous(CurrentLabel) # NULL
    /\ Previous(CurrentLabel).act_id = CurrentLabel.act_id
    /\ EnteredFrom(CurrentLabel) # NULL

(* C31: when a label leaves a charging activity that lasted one or more     *)
(* continuation steps, the charging-cost term of the utility is             *)
(* beta_charge_cost times the cost of all the intervals charged during the  *)
(* activity: the charge_cost of its last label less that of the label from  *)
(* which it was entered.                                                    *)
C31_CostOfWholeActivity ==
    LeavingCharging =>
        ChargeCostTerm =
            beta_charge_cost
                * (CurrentLabel.charge_cost - EnteredFrom(CurrentLabel).charge_cost)
                * (UScale \div (10 * CostScale))

(* Every label of the bucket that has a predecessor has it in the bucket:   *)
(* no chain passes through a label that dominance removed.                  *)
ChainsStored ==
    \A L \in LabelsOfBucket : Previous(L) = NULL \/ Previous(L) \in LabelsOfBucket

(* The label DP() is about to create is later than the label extended,      *)
(* which is of the row h being scanned.                                     *)
LaterRow ==
    PendingExtension =>
        (CurrentLabel.time = h /\ NewLabel.time > CurrentLabel.time)

(* C32: a label created by extending L has time > L.time, so no step of     *)
(* DP() changes the row it is scanning or a row it has scanned, and no      *)
(* label of the bucket has a chain through a label that dominance removed.  *)
C32_ScannedRowsKept ==
    [][/\ LaterRow
       /\ ChainsStored
       /\ ChainsStored'
       /\ (pc = "DP_loop" /\ pc' # "crashed") =>
             \A t \in DOMAIN bucket : t <= h => bucket'[t] = bucket[t]]_vars

(* C32, its case: the label DP() is about to create, from a label that has  *)
(* a predecessor, removes a stored label by dominance.                      *)
C32_Witness ==
    /\ PendingInsert
    /\ Previous(CurrentLabel) # NULL
    /\ \E E \in LabelSet(TargetCell) :
          /\ dominates(NewLabel, E) = 2
          /\ Previous(E) # NULL

(* A chain goes from an activity to another and straight back: positions    *)
(* i < j < k with the labels i+1 .. k-1 all of the activity of j, another   *)
(* than that of i and k.                                                    *)
PingPong(ch) ==
    \E i, k \in 1 .. Len(ch) :
        /\ i + 1 < k
        /\ ch[i].act_id = ch[k].act_id
        /\ ch[i + 1].act_id # ch[i].act_id
        /\ \A j \in (i + 1) .. (k - 1) : ch[j].act_id = ch[i + 1].act_id

(* C33: no chain built by DP() visits an activity A, then another activity  *)
(* B for any number of intervals, then A again.                             *)
C33_NoPingPong ==
    /\ \A L \in LabelsOfBucket : ~PingPong(Chain(L))
    /\ PendingExtension => ~PingPong(Chain(NewLabel))

(* The dawn labels of a chain are its first labels, the seed the first of   *)
(* all; a dusk label is the last label of its chain.                        *)
DawnFirstDuskLast(ch) ==
    /\ ch[1].act_id = 0
    /\ \A k \in 2 .. Len(ch) : ch[k].act_id = 0 => ch[k - 1].act_id = 0
    /\ \A k \in 1 .. Len(ch) - 1 : ch[k].act_id # num_activities - 1

(* C34: in every chain the dawn labels are a contiguous prefix that starts  *)
(* at the seed, and no dusk label is extended by any step, a continuation   *)
(* included.                                                                *)
C34_DawnFirstDuskLast ==
    /\ \A L \in LabelsOfBucket : DawnFirstDuskLast(Chain(L))
    /\ PendingExtension =>
          /\ CurrentLabel.act_id # num_activities - 1
          /\ DawnFirstDuskLast(Chain(NewLabel))

(* C34, its case: DP() tries dawn on a label of another activity, the       *)
(* bucket holding a dusk label reached through an activity other than dawn. *)
C34_Witness ==
    /\ pc = "DP_loop"
    /\ CurrentLabel # NULL
    /\ CurrentLabel.act_id # 0
    /\ a1 = 0
    /\ ~is_feasible(CurrentLabel, Act(a1))
    /\ \E L \in LabelsOfBucket :
          /\ L.act_id = num_activities - 1
          /\ Previous(L).act_id # 0

(* distance / speed rounded up to the next multiple of time_interval, in    *)
(* intervals: the least n with n * time_interval * speed >= distance, the   *)
(* distance compared by its square.                                         *)
RECURSIVE IntervalsFrom(_, _)
IntervalsFrom(d2, n) ==
    IF (n * time_interval * speed) * (n * time_interval * speed) >= d2
    THEN n
    ELSE IntervalsFrom(d2, n + 1)
RoundedUp(aa, bb) ==
    IntervalsFrom((bb.x - aa.x) * (bb.x - aa.x) + (bb.y - aa.y) * (bb.y - aa.y), 0)

(* C35: travel_time(a, b) is distance(a, b) / speed rounded up to the next  *)
(* multiple of time_interval, divided by time_interval; it is >= 0, is 0    *)
(* for two activities at one place and is the same for (a, b) and (b, a).   *)
C35_TravelTimeRoundedUp ==
    (time_interval > 0 /\ speed > 0) =>
        \A i, j \in 0 .. num_activities - 1 :
            /\ travel_time(Act(i), Act(j)) = RoundedUp(Act(i), Act(j))
            /\ travel_time(Act(i), Act(j)) >= 0
            /\ (Act(i).x = Act(j).x /\ Act(i).y = Act(j).y)
                  => travel_time(Act(i), Act(j)) = 0
            /\ travel_time(Act(i), Act(j)) = travel_time(Act(j), Act(i))

(* The rate and price of the charge modes as scheduling.h numbers them:     *)
(* 0 none, 1 slow, 2 fast, 3 rapid.                                         *)
RateAndPriceOfMode(a) ==
    CASE a.charge_mode = 0 -> <<0, 0>>
      [] a.charge_mode = 1 ->
            <<slow_charge_rate,
              IF a.group = 0 THEN home_slow_charge_price ELSE AC_charge_price>>
      [] a.charge_mode = 2 -> <<fast_charge_rate, AC_charge_price>>
      [] a.charge_mode = 3 -> <<rapid_charge_rate, public_dc_charge_price>>

(* C36: get_charge_rate_and_price gives (0, 0) for charge_mode 0, the slow  *)
(* rate with the home or the AC price for mode 1, the fast rate with the    *)
(* AC price for mode 2 and the rapid rate with the public DC price for      *)
(* mode 3.                                                                  *)
C36_RateAndPriceByMode ==
    \A i \in 0 .. num_activities - 1 :
        Act(i).charge_mode \in 0 .. 3 =>
            get_charge_rate_and_price(Act(i)) = RateAndPriceOfMode(Act(i))

(* The coefficient of group g in an array as supplied to                    *)
(* set_general_parameters, in utility units.                                *)
Supplied(arr, g) == arr[g + 1] * (UScale \div 100)

(* The change of utility of a transition from label L, of activity p, to    *)
(* activity a with start time st: attraction, travel, the duration penalty  *)
(* of p and the start-time penalty of a, the last two left out for Home and *)
(* for a service station.                                                   *)
TransitionUtility(L, a, st) ==
    LET p == Act(L.act_id)
    IN  Supplied(asc, a.group)
        + travel_time_penalty * (UScale \div 100) * travel_time(p, a)
        + (IF p.group # 0 /\ ~p.is_service_station
           THEN Supplied(shortp, p.group) * time_interval
                    * Max(0, p.des_duration - L.duration)
                + Supplied(longp, p.group) * time_interval
                    * Max(0, L.duration - p.des_duration)
           ELSE 0)
        + (IF a.group # 0 /\ ~a.is_service_station
           THEN Supplied(early, a.group) * time_interval
                    * Max(0, a.des_start_time - st)
                + Supplied(late, a.group) * time_interval
                    * Max(0, st - a.des_start_time)
           ELSE 0)

(* C37: on a transition from a label L of an activity p that is not         *)
(* charging to an activity a, the utility of the new label less that of L   *)
(* is asc[a.group] + travel_time_penalty * travel_time(p, a), plus the      *)
(* short/long duration penalty of p and the early/late start penalty of a,  *)
(* each left out for Home and for a service station.                        *)
C37_TransitionUtility ==
    (PendingTransition /\ ~Act(CurrentLabel.act_id).is_charging) =>
        NewLabel.utility - CurrentLabel.utility
            = TransitionUtility(CurrentLabel, Act(a1), NewLabel.start_time)

(* A label of a charging activity made by a continuation.                   *)
ChargingContinued(L) ==
    /\ Act(L.act_id).is_charging
    /\ Previous(L) # NULL
    /\ Previous(L).act_id = L.act_id

(* C38: a continuation at a charging activity is feasible only from a label *)
(* with current_soc + rate <= 1, so every continuation label gains the full *)
(* rate of one interval: the cap min(1 - current_soc, rate) binds on the    *)
(* first interval of an activity only.                                      *)
C38_ContinuationChargesFullRate ==
    /\ (PendingContinuation /\ Act(a1).is_charging) =>
          /\ CurrentLabel.current_soc + get_charge_rate_and_price(Act(a1))[1]
                <= soc_full
          /\ NewLabel.delta_soc = get_charge_rate_and_price(Act(a1))[1]
          /\ NewLabel.current_soc = CurrentLabel.current_soc + NewLabel.delta_soc
    /\ \A L \in LabelsOfBucket :
          ChargingContinued(L) =>
              L.delta_soc = get_charge_rate_and_price(Act(L.act_id))[1]

(* C38, its case: a feasible continuation at a charging activity whose rate *)
(* is above 0, from a label that has charged in its first interval.         *)
C38_Witness ==
    /\ PendingContinuation
    /\ Act(a1).is_charging
    /\ get_charge_rate_and_price(Act(a1))[1] > 0
    /\ CurrentLabel.delta_soc > 0
    /\ NewLabel.delta_soc = get_charge_rate_and_price(Act(a1))[1]
    /\ NewLabel.current_soc < soc_full

(* `previous == null` exactly for the labels of dawn.                       *)
NullPreviousIffDawn(L) == (Previous(L) = NULL) <=> (L.act_id = 0)

IsSeed(L) == L.act_id = 0 /\ L.time = Act(0).min_duration

NullPreviousIffSeed(L) == (Previous(L) = NULL) <=> IsSeed(L)

=============================================================================
